---- MODULE Spec2Model ----
(***************************************************************************)
(* Model of the signal/decision engine of marketflow:                      *)
(*   strategy.py          Strategy (_detect_crossover, exit/entry checks,  *)
(*                        evaluate_position, evaluate_position_enhanced)   *)
(*   ratio_calculator.py  QQQSPYRatioCalculator.notify_if_signal           *)
(*   database.py          DatabaseManager.init_db (signal_state row)       *)
(*   backtesting.py       Backtester.run_backtest (decision loop)          *)
(*   main.py              main (construction of the components)            *)
(*   monitoring.py        process_market_cycle                             *)
(*   market_data.py       MarketData.calculate_ratio                       *)
(*   notification.py      Notifier.send_notification                       *)
(*                                                                         *)
(* Ratios N and thresholds V are integers in units of 0.05, so that        *)
(* 0.9, 0.95, 1.0, 1.05, 1.1 are 18, 19, 20, 21, 22.                       *)
(***************************************************************************)
EXTENDS Integers, Sequences, FiniteSets, TLC

VARIABLES
    current_position,   \* Strategy.current_position (Optional[Position])
    last_n_above_v,     \* Strategy.last_n_above_v (Optional[bool])
    entry_prices,       \* keys of Strategy.entry_prices
    cyc,                \* record of the last decision cycle: inputs, crossover, result, signals
    prev,               \* summary of the decision cycle before it
    signal_state,       \* the singleton row of table signal_state
    nf,                 \* the running notify_if_signal call: position, locals, inputs
    sent,               \* titles handed to the notifier by the running/last notify_if_signal
    clock,              \* wall clock (datetime.now()), in ticks
    bt,                 \* locals of Backtester.run_backtest
    pair,               \* two Strategy objects fed cycle by cycle (crossover detectors)
    calc,               \* a call of MarketData.calculate_ratio: arguments and outcome
    notifier            \* the Notifier object and its last send_notification call

vars == <<current_position, last_n_above_v, entry_prices, cyc, prev,
          signal_state, nf, sent, clock, bt, pair, calc, notifier>>

store_vars    == <<signal_state, nf, sent, clock>>

----------------------------------------------------------------------------
(* Bounds *)

MaxRatio == 22          \* largest ratio drawn (1.1)
MaxCycles == 3          \* decision cycles per behaviour of the engine
MaxSeries == 4          \* length of the series a backtest or a pair of detectors is fed
MaxClock == 3           \* clock ticks per behaviour
MaxPrice == 2           \* largest price of a series given to calculate_ratio
MaxLen == 2             \* longest series given to calculate_ratio

Ratios == 20..MaxRatio          \* N of the engine's cycles
SeriesRatios == 18..MaxRatio    \* N of a backtest series
Thresholds == {20, 21}          \* V

----------------------------------------------------------------------------
(* strategy.py: Position, Optional values *)

None == "None"

Position == {"CASH", "QQQ", "SPY", "SH", "PSQ", "AGG", "LQD", "TLT", "GLD"}

\* Optional[bool] as the strings None / "True" / "False"
PyBool(b) == IF b THEN "True" ELSE "False"

\* Python truthiness of an Optional[bool]: None and False are falsy
Truthy(ob) == ob = "True"

\* `x or Position.CASH`: every Position member is truthy, None is not
OrCash(p) == IF p = None THEN "CASH" ELSE p

\* notification titles passed to _send_signal_notification
CrossUpTitle   == "N_CROSS_UP"      \* "N上穿V"
CrossDownTitle == "N_CROSS_DOWN"    \* "N下穿V"
SellQQQ == "SELL_QQQ"               \* "卖出QQQ信号"
SellSPY == "SELL_SPY"               \* "卖出SPY信号"
BuyQQQ  == "BUY_QQQ"                \* "买入QQQ信号"
BuySPY  == "BUY_SPY"                \* "买入SPY信号"

ExitTitles  == {SellQQQ, SellSPY}
EntryTitles == {BuyQQQ, BuySPY}

Titles(s) == {s[i] : i \in 1..Len(s)}

----------------------------------------------------------------------------
(* strategy.py: Strategy._detect_crossover *)

\* a detector that takes an unset remembered flag for False
detect_crossover_unset_as_false(last, current_n, v) ==
    LET current_n_above_v == current_n > v
    IN  [crossover_up |-> ~Truthy(last) /\ current_n_above_v,
         crossover_down |-> Truthy(last) /\ ~current_n_above_v,
         last_n_above_v |-> PyBool(current_n_above_v)]

\* a detector with the two directions exchanged
detect_crossover_swapped(last, current_n, v) ==
    LET current_n_above_v == current_n > v
    IN  [crossover_up |-> last # None /\ Truthy(last) /\ ~current_n_above_v,
         crossover_down |-> last # None /\ ~Truthy(last) /\ current_n_above_v,
         last_n_above_v |-> PyBool(current_n_above_v)]

\* a detector that compares with >= instead of >
detect_crossover_ge(last, current_n, v) ==
    LET current_n_above_v == current_n >= v
    IN  [crossover_up |-> last # None /\ ~Truthy(last) /\ current_n_above_v,
         crossover_down |-> last # None /\ Truthy(last) /\ ~current_n_above_v,
         last_n_above_v |-> PyBool(current_n_above_v)]

\* a detector that remembers the side of N only when it reports a crossover
detect_crossover_on_cross_only(last, current_n, v) ==
    LET current_n_above_v == current_n > v
        up   == last # None /\ ~Truthy(last) /\ current_n_above_v
        down == last # None /\ Truthy(last) /\ ~current_n_above_v
    IN  [crossover_up |-> up, crossover_down |-> down,
         last_n_above_v |-> IF up \/ down THEN PyBool(current_n_above_v) ELSE last]

detect_crossover(last, current_n, v) ==
    LET current_n_above_v == current_n > v
        up   == last # None /\ (~Truthy(last) /\ current_n_above_v)
        down == last # None /\ ~(~Truthy(last) /\ current_n_above_v)
                            /\ (Truthy(last) /\ ~current_n_above_v)
    IN  [crossover_up |-> up, crossover_down |-> down,
         last_n_above_v |-> PyBool(current_n_above_v)]

\* an exit check without the exit of SPY on a false secondary trend condition
check_exit_conditions_no_trend_break(position, crossover_up, crossover_down, spy_ma_condition) ==
    IF position = "QQQ" /\ crossover_down
    THEN [position |-> "CASH", signals |-> <<SellQQQ>>]
    ELSE IF position = "SPY" /\ crossover_up
    THEN [position |-> "CASH", signals |-> <<SellSPY>>]
    ELSE [position |-> None, signals |-> <<>>]

\* an exit check that leaves QQQ on a crossover in either direction
check_exit_conditions_any_cross(position, crossover_up, crossover_down, spy_ma_condition) ==
    IF position = "QQQ" /\ (crossover_down \/ crossover_up)
    THEN [position |-> "CASH", signals |-> <<SellQQQ>>]
    ELSE IF position = "SPY" /\ (crossover_up \/ ~spy_ma_condition)
    THEN [position |-> "CASH", signals |-> <<SellSPY>>]
    ELSE [position |-> None, signals |-> <<>>]

(* Strategy._check_exit_conditions: the position to exit to (None: no exit)
   and the notifications sent *)
check_exit_conditions(position, crossover_up, crossover_down, spy_ma_condition) ==
    IF position = "QQQ" /\ crossover_down
    THEN [position |-> "CASH", signals |-> <<SellQQQ>>]
    ELSE IF position = "SPY" /\ crossover_up
    THEN [position |-> "CASH", signals |-> <<SellSPY>>]
    ELSE IF position = "SPY" /\ ~spy_ma_condition
    THEN [position |-> "CASH", signals |-> <<SellSPY>>]
    ELSE [position |-> None, signals |-> <<>>]

\* an entry check without the "only from CASH" guard
check_entry_conditions_any_position(position, crossover_up, crossover_down, current_n, v, spy_ma_condition) ==
    IF crossover_up
    THEN [position |-> "QQQ", signals |-> <<BuyQQQ>>]
    ELSE IF current_n <= v /\ spy_ma_condition
    THEN [position |-> "SPY", signals |-> <<BuySPY>>]
    ELSE [position |-> None, signals |-> <<>>]

\* an entry check that enters QQQ whenever N is above V
check_entry_conditions_above(position, crossover_up, crossover_down, current_n, v, spy_ma_condition) ==
    IF position # "CASH"
    THEN [position |-> None, signals |-> <<>>]
    ELSE IF current_n > v
    THEN [position |-> "QQQ", signals |-> <<BuyQQQ>>]
    ELSE IF current_n <= v /\ spy_ma_condition
    THEN [position |-> "SPY", signals |-> <<BuySPY>>]
    ELSE [position |-> None, signals |-> <<>>]

(* Strategy._check_entry_conditions *)
check_entry_conditions(position, crossover_up, crossover_down, current_n, v, spy_ma_condition) ==
    IF position # "CASH"
    THEN [position |-> None, signals |-> <<>>]
    ELSE IF crossover_up
    THEN [position |-> "QQQ", signals |-> <<BuyQQQ>>]
    ELSE IF current_n <= v /\ spy_ma_condition
    THEN [position |-> "SPY", signals |-> <<BuySPY>>]
    ELSE [position |-> None, signals |-> <<>>]

\* an evaluation that, after an exit, goes on to the entry check from CASH
evaluate_position_exit_then_entry(position, last, current_n, v, spy_ma_condition) ==
    LET x     == detect_crossover(last, current_n, v)
        note  == IF x.crossover_up THEN <<CrossUpTitle>>
                 ELSE IF x.crossover_down THEN <<CrossDownTitle>>
                 ELSE <<>>
        exit  == check_exit_conditions(position, x.crossover_up, x.crossover_down,
                                       spy_ma_condition)
        held  == IF exit.position # None THEN exit.position ELSE position
        entry == check_entry_conditions(held, x.crossover_up, x.crossover_down,
                                        current_n, v, spy_ma_condition)
    IN  [up |-> x.crossover_up, down |-> x.crossover_down,
         last_n_above_v |-> x.last_n_above_v,
         result |-> IF entry.position # None THEN entry.position ELSE OrCash(held),
         signals |-> note \o exit.signals \o entry.signals,
         exit_fired |-> exit.position # None, entry_evaluated |-> TRUE,
         entry_fired |-> entry.position # None, raised |-> FALSE]

\* an evaluation that returns CASH whenever neither check returns a position
evaluate_position_default_cash(position, last, current_n, v, spy_ma_condition) ==
    LET x     == detect_crossover(last, current_n, v)
        note  == IF x.crossover_up THEN <<CrossUpTitle>>
                 ELSE IF x.crossover_down THEN <<CrossDownTitle>>
                 ELSE <<>>
        exit  == check_exit_conditions(position, x.crossover_up, x.crossover_down,
                                       spy_ma_condition)
        entry == check_entry_conditions(position, x.crossover_up, x.crossover_down,
                                        current_n, v, spy_ma_condition)
        base  == [up |-> x.crossover_up, down |-> x.crossover_down,
                  last_n_above_v |-> x.last_n_above_v, raised |-> FALSE]
    IN  IF exit.position # None
        THEN base @@ [result |-> exit.position, signals |-> note \o exit.signals,
                      exit_fired |-> TRUE, entry_evaluated |-> FALSE, entry_fired |-> FALSE]
        ELSE IF entry.position # None
        THEN base @@ [result |-> entry.position,
                      signals |-> note \o exit.signals \o entry.signals,
                      exit_fired |-> FALSE, entry_evaluated |-> TRUE, entry_fired |-> TRUE]
        ELSE base @@ [result |-> "CASH",
                      signals |-> note \o exit.signals \o entry.signals,
                      exit_fired |-> FALSE, entry_evaluated |-> TRUE, entry_fired |-> FALSE]

(* Strategy.evaluate_position: the returned position, the notifications in
   the order sent, the remembered flag after the call, and which checks ran *)
evaluate_position(position, last, current_n, v, spy_ma_condition) ==
    LET x     == detect_crossover(last, current_n, v)
        note  == IF x.crossover_up THEN <<CrossUpTitle>>
                 ELSE IF x.crossover_down THEN <<CrossDownTitle>>
                 ELSE <<>>
        exit  == check_exit_conditions(position, x.crossover_up, x.crossover_down,
                                       spy_ma_condition)
        entry == check_entry_conditions(position, x.crossover_up, x.crossover_down,
                                        current_n, v, spy_ma_condition)
        base  == [up |-> x.crossover_up, down |-> x.crossover_down,
                  last_n_above_v |-> x.last_n_above_v, raised |-> FALSE]
    IN  IF exit.position # None
        THEN base @@ [result |-> exit.position, signals |-> note \o exit.signals,
                      exit_fired |-> TRUE, entry_evaluated |-> FALSE, entry_fired |-> FALSE]
        ELSE IF entry.position # None
        THEN base @@ [result |-> entry.position,
                      signals |-> note \o exit.signals \o entry.signals,
                      exit_fired |-> FALSE, entry_evaluated |-> TRUE, entry_fired |-> TRUE]
        ELSE base @@ [result |-> OrCash(position),
                      signals |-> note \o exit.signals \o entry.signals,
                      exit_fired |-> FALSE, entry_evaluated |-> TRUE, entry_fired |-> FALSE]

(* Confirmation inputs that are not numbers: an absent value (Python None)
   and a float NaN.  RSI and the fear score are in 0..100. *)
AbsentValue == -1
NaN == -2

\* `x < k` and `x > k` on a float, None or NaN operand: a comparison with
\* None raises TypeError, a comparison with NaN is False
PyLt(x, k) == IF x = AbsentValue THEN "TypeError" ELSE IF x = NaN THEN "False" ELSE PyBool(x < k)
PyGt(x, k) == IF x = AbsentValue THEN "TypeError" ELSE IF x = NaN THEN "False" ELSE PyBool(x > k)

\* `a and b`, `a or b`: b is evaluated only when a does not decide
PyAnd(a, b) == IF a = "True" THEN b ELSE a
PyOr(a, b)  == IF a = "False" THEN b ELSE a

\* an entry confirmation that does not look at the trend
qqq_entry_confirmed_no_trend(crossover_up, ci) ==
    PyAnd(PyBool(crossover_up), PyAnd(PyLt(ci.qqq_rsi, 70), PyLt(ci.fear_score, 70)))

(* evaluate_position_enhanced, lines 187-192 *)
qqq_entry_confirmed(crossover_up, ci) ==
    PyAnd(PyBool(crossover_up),
          PyAnd(PyLt(ci.qqq_rsi, 70),
                PyAnd(PyBool(ci.qqq_ma_trend = "rising"), PyLt(ci.fear_score, 70))))

(* lines 194-200 *)
spy_entry_confirmed(current_n, v, spy_ma_condition, ci) ==
    PyAnd(PyBool(current_n <= v),
          PyAnd(PyBool(spy_ma_condition),
                PyAnd(PyLt(ci.spy_rsi, 70),
                      PyAnd(PyBool(ci.spy_ma_trend = "rising"), PyGt(ci.fear_score, 30)))))

\* an exit confirmation of QQQ by the downward crossover alone
qqq_exit_confirmed_crossover_only(crossover_down, ci) ==
    PyBool(crossover_down)

(* lines 203-208 *)
qqq_exit_confirmed(crossover_down, ci) ==
    PyOr(PyBool(crossover_down),
         PyOr(PyGt(ci.qqq_rsi, 80),
              PyOr(PyBool(ci.qqq_ma_trend = "falling"), PyGt(ci.fear_score, 80))))

(* lines 210-216 *)
spy_exit_confirmed(crossover_up, spy_ma_condition, ci) ==
    PyOr(PyAnd(PyBool(crossover_up), PyGt(ci.fear_score, 50)),
         PyOr(PyBool(~spy_ma_condition),
              PyOr(PyGt(ci.spy_rsi, 80),
                   PyOr(PyBool(ci.spy_ma_trend = "falling"), PyGt(ci.fear_score, 80)))))

(* Strategy.evaluate_position_enhanced; ci are the confirmation inputs
   (qqq_rsi, spy_rsi, qqq_ma_trend, spy_ma_trend, fear_score), prices the keys
   of entry_prices.  The four confirmations are computed, in this order,
   before the decision; a TypeError in any of them leaves the call with the
   remembered flag already assigned and nothing returned. *)
evaluate_position_enhanced(position, last, prices, current_n, v, spy_ma_condition, ci) ==
    LET x == detect_crossover(last, current_n, v)
        qqq_entry == qqq_entry_confirmed(x.crossover_up, ci)
        spy_entry == spy_entry_confirmed(current_n, v, spy_ma_condition, ci)
        qqq_exit  == qqq_exit_confirmed(x.crossover_down, ci)
        spy_exit  == spy_exit_confirmed(x.crossover_up, spy_ma_condition, ci)
        base == [up |-> x.crossover_up, down |-> x.crossover_down,
                 last_n_above_v |-> x.last_n_above_v]
    IN  IF "TypeError" \in {qqq_entry, spy_entry, qqq_exit, spy_exit}
        THEN base @@ [result |-> None, signals |-> <<>>, entry_prices |-> prices,
                      exit_fired |-> FALSE, entry_evaluated |-> FALSE,
                      entry_fired |-> FALSE, raised |-> TRUE]
        ELSE IF position = "QQQ" /\ Truthy(qqq_exit)
        THEN base @@ [result |-> "CASH", signals |-> <<SellQQQ>>,
                      entry_prices |-> prices \ {"QQQ"},
                      exit_fired |-> TRUE, entry_evaluated |-> FALSE,
                      entry_fired |-> FALSE, raised |-> FALSE]
        ELSE IF position = "SPY" /\ Truthy(spy_exit)
        THEN base @@ [result |-> "CASH", signals |-> <<SellSPY>>,
                      entry_prices |-> prices \ {"SPY"},
                      exit_fired |-> TRUE, entry_evaluated |-> FALSE,
                      entry_fired |-> FALSE, raised |-> FALSE]
        ELSE IF position = "CASH" /\ Truthy(qqq_entry)
        THEN base @@ [result |-> "QQQ", signals |-> <<BuyQQQ>>, entry_prices |-> prices,
                      exit_fired |-> FALSE, entry_evaluated |-> TRUE,
                      entry_fired |-> TRUE, raised |-> FALSE]
        ELSE IF position = "CASH" /\ Truthy(spy_entry)
        THEN base @@ [result |-> "SPY", signals |-> <<BuySPY>>, entry_prices |-> prices,
                      exit_fired |-> FALSE, entry_evaluated |-> TRUE,
                      entry_fired |-> TRUE, raised |-> FALSE]
        ELSE base @@ [result |-> OrCash(position), signals |-> <<>>, entry_prices |-> prices,
                      exit_fired |-> FALSE, entry_evaluated |-> position = "CASH",
                      entry_fired |-> FALSE, raised |-> FALSE]

----------------------------------------------------------------------------
(* The record of a decision cycle *)

NoInputs == [qqq_rsi |-> 0, spy_rsi |-> 0, qqq_ma_trend |-> "stable",
             spy_ma_trend |-> "stable", fear_score |-> 0]

NoCycle == [op |-> "none", no |-> 0, pre |-> None, last_before |-> None,
            n |-> 0, v |-> 0, ma |-> FALSE, ci |-> NoInputs,
            up |-> FALSE, down |-> FALSE, result |-> None, signals |-> <<>>,
            exit_fired |-> FALSE, entry_evaluated |-> FALSE, entry_fired |-> FALSE,
            raised |-> FALSE, ok |-> TRUE, fault |-> "none"]

CycleRecord(op, n, v, ma, ci, r) ==
    [op |-> op, no |-> cyc.no + 1, pre |-> current_position,
     last_before |-> last_n_above_v, n |-> n, v |-> v, ma |-> ma, ci |-> ci,
     up |-> r.up, down |-> r.down, result |-> r.result, signals |-> r.signals,
     exit_fired |-> r.exit_fired, entry_evaluated |-> r.entry_evaluated,
     entry_fired |-> r.entry_fired, raised |-> r.raised, ok |-> ~r.raised,
     fault |-> "none"]

\* what the next cycle keeps of a cycle
Summary(c) == [op |-> c.op, pre |-> c.pre, n |-> c.n, v |-> c.v, ma |-> c.ma,
               result |-> c.result, signals |-> c.signals]

\* the kind of the cycle's signal record: ENTRY, EXIT or NONE
SignalType(c) ==
    IF Titles(c.signals) \cap ExitTitles # {} THEN "EXIT"
    ELSE IF Titles(c.signals) \cap EntryTitles # {} THEN "ENTRY"
    ELSE "NONE"

----------------------------------------------------------------------------
(* database.py: the signal_state row; DatabaseManager.init_db *)

\* INSERT OR IGNORE ... VALUES (1, 0, datetime('now'), NULL, NULL)
\* (a TEXT timestamp is {t}, NULL is {})
DefaultRow(now) == [last_n_above_v |-> FALSE, last_check_time |-> {now},
                    last_long_signal |-> None, last_signal_time |-> {}]

\* the table before the first init_db: no row with id = 1
NoRow == [last_n_above_v |-> FALSE, last_check_time |-> {},
          last_long_signal |-> "absent", last_signal_time |-> {}]

\* an initialization that writes the default row over an existing one
init_db_replace(row, now) == DefaultRow(now)

\* an initialization that stamps the check time of an existing row
init_db_touch(row, now) ==
    IF row = NoRow THEN DefaultRow(now) ELSE [row EXCEPT !.last_check_time = {now}]

init_db(row, now) == IF row = NoRow THEN DefaultRow(now) ELSE row

\* DatabaseManager.get_last_signal_state as notify_if_signal unpacks it:
\* (last_n_above_v, last_check_time, last_long_signal, last_signal_time)
get_last_signal_state(row) ==
    <<row.last_n_above_v, row.last_check_time, row.last_long_signal, row.last_signal_time>>

\* DatabaseManager.update_signal_state(n_above_v, long_signal): one UPDATE of
\* the row, stamped with the current time
update_signal_state(row, n_above_v, long_signal, now) ==
    [last_n_above_v |-> n_above_v, last_check_time |-> {now},
     last_long_signal |-> long_signal, last_signal_time |-> {now}]

----------------------------------------------------------------------------
(* ratio_calculator.py: QQQSPYRatioCalculator.notify_if_signal *)

\* bodies passed to notifier.send_notification
SellQQQAlert == "ALERT_SELL_QQQ"    \* "卖出QQQ信号提醒!"
SellSPYAlert == "ALERT_SELL_SPY"    \* "卖出SPY信号提醒!"
BuyQQQAlert  == "ALERT_BUY_QQQ"     \* "做多QQQ信号提醒!"
BuySPYAlert  == "ALERT_BUY_SPY"     \* "做多SPY信号提醒!"

NoUpdate == [write |-> FALSE, n_above_v |-> FALSE, long_signal |-> None]
Update(above, signal) == [write |-> TRUE, n_above_v |-> above, long_signal |-> signal]

\* rules that move an open QQQ signal to SPY in one call
notify_decision_switch(last_above, last_long_signal, current_n, v, crossover, price_le_ma) ==
    LET current_n_above_v == current_n > v
    IN  IF last_long_signal = "QQQ" /\ current_n <= v
        THEN IF crossover
             THEN [alert |-> <<SellQQQAlert, BuySPYAlert>>, update |-> Update(current_n_above_v, "SPY")]
             ELSE [alert |-> <<SellQQQAlert>>, update |-> Update(current_n_above_v, None)]
        ELSE IF current_n > v /\ last_long_signal = None /\ ~last_above
        THEN [alert |-> <<BuyQQQAlert>>, update |-> Update(current_n_above_v, "QQQ")]
        ELSE [alert |-> <<>>, update |-> NoUpdate]

\* rules whose exits save the flag and leave the stored signal as it was
notify_decision_keep_signal(last_above, last_long_signal, current_n, v, crossover, price_le_ma) ==
    LET current_n_above_v == current_n > v
    IN  IF last_long_signal = "QQQ" /\ current_n <= v
        THEN [alert |-> <<SellQQQAlert>>, update |-> Update(current_n_above_v, last_long_signal)]
        ELSE IF last_long_signal = "SPY" /\ current_n > v
        THEN [alert |-> <<SellSPYAlert>>, update |-> Update(current_n_above_v, last_long_signal)]
        ELSE IF current_n > v /\ last_long_signal # "QQQ"
        THEN IF last_long_signal = None /\ ~last_above
             THEN [alert |-> <<BuyQQQAlert>>, update |-> Update(current_n_above_v, "QQQ")]
             ELSE [alert |-> <<>>, update |-> NoUpdate]
        ELSE [alert |-> <<>>, update |-> NoUpdate]

(* The rule of notify_if_signal that applies (lines 99-141): the alert sent
   and the update_signal_state call that follows it.  crossover and
   price_le_ma are what market_data.check_ma_crossover('SPY', 40) reports:
   its first component, and spy_price <= ma_value. *)
notify_decision(last_above, last_long_signal, current_n, v, crossover, price_le_ma) ==
    LET current_n_above_v == current_n > v
    IN  IF last_long_signal = "QQQ" /\ current_n <= v
        THEN [alert |-> <<SellQQQAlert>>, update |-> Update(current_n_above_v, None)]
        ELSE IF last_long_signal = "SPY" /\ current_n > v
        THEN [alert |-> <<SellSPYAlert>>, update |-> Update(current_n_above_v, None)]
        ELSE IF current_n > v /\ last_long_signal # "QQQ"
        THEN IF last_long_signal = None /\ ~last_above
             THEN [alert |-> <<BuyQQQAlert>>, update |-> Update(current_n_above_v, "QQQ")]
             ELSE [alert |-> <<>>, update |-> NoUpdate]
        ELSE IF current_n <= v /\ last_long_signal # "SPY"
        THEN IF last_long_signal = None /\ crossover /\ last_above
             THEN [alert |-> <<BuySPYAlert>>, update |-> Update(current_n_above_v, "SPY")]
             ELSE [alert |-> <<>>, update |-> NoUpdate]
        ELSE IF last_long_signal = "SPY" /\ price_le_ma
        THEN [alert |-> <<SellSPYAlert>>, update |-> Update(current_n_above_v, None)]
        ELSE [alert |-> <<>>, update |-> NoUpdate]

(* The update_signal_state calls of one notify_if_signal call, in the order
   made, following the statements of lines 99-141: the two rules that
   return, then the if/elif of the entries, then the block of the SPY exit. *)
notify_updates(last_above, last_long_signal, current_n, v, crossover, price_le_ma) ==
    LET current_n_above_v == current_n > v
        entries == IF current_n > v /\ last_long_signal # "QQQ"
                   THEN IF last_long_signal = None /\ ~last_above
                        THEN <<Update(current_n_above_v, "QQQ")>> ELSE <<>>
                   ELSE IF current_n <= v /\ last_long_signal # "SPY"
                   THEN IF last_long_signal = None /\ crossover /\ last_above
                        THEN <<Update(current_n_above_v, "SPY")>> ELSE <<>>
                   ELSE <<>>
        spy_exit == IF last_long_signal = "SPY" /\ price_le_ma
                    THEN <<Update(current_n_above_v, None)>> ELSE <<>>
    IN  IF last_long_signal = "QQQ" /\ current_n <= v
        THEN <<Update(current_n_above_v, None)>>
        ELSE IF last_long_signal = "SPY" /\ current_n > v
        THEN <<Update(current_n_above_v, None)>>
        ELSE entries \o spy_exit

\* no call running, none made: prev_above is (N > V) of the call before
NfIdle == [pc |-> "idle", was |-> "idle", current_n |-> 0, v |-> 0,
           loaded |-> <<>>, update |-> NoUpdate, writes |-> 0, prev_above |-> None]

----------------------------------------------------------------------------
(* notification.py: Notifier.  The state of the object is _retry_count and
   whether the cooldown since _last_notification is still running; an
   attempt is one pass of send_notification over its channels (Bark, then
   Telegram), whose results are the inputs of the call. *)

ERROR_RETRY_COUNT == 3      \* constants.py: DEFAULT_ERROR_RETRY_COUNT

\* Notifier.__init__: _retry_count = 0, _last_notification = 0 (the epoch,
\* longer ago than any cooldown)
NewNotifier == [retry_count |-> 0, cooling |-> FALSE, called |-> FALSE,
                retry |-> FALSE, outcomes |-> <<>>, before |-> 0,
                attempts |-> 0, result |-> FALSE]

\* the results of the channels in the successive attempts of a call
Outcomes == [1..ERROR_RETRY_COUNT -> BOOLEAN \X BOOLEAN]

\* a send_notification that stops only above the retry count
RECURSIVE send_notification_gt(_, _, _, _)
send_notification_gt(n, retry, outcomes, attempts) ==
    IF n.retry_count > ERROR_RETRY_COUNT
    THEN [notifier |-> n, result |-> FALSE, attempts |-> attempts]
    ELSE IF n.cooling
    THEN [notifier |-> n, result |-> FALSE, attempts |-> attempts]
    ELSE LET bark_success     == Head(outcomes)[1]
             telegram_success == Head(outcomes)[2]
             success == bark_success \/ telegram_success
             failed  == [n EXCEPT !.retry_count = @ + 1]
         IN  IF success
             THEN [notifier |-> [n EXCEPT !.retry_count = 0, !.cooling = TRUE],
                   result |-> TRUE, attempts |-> attempts + 1]
             ELSE IF retry /\ failed.retry_count < ERROR_RETRY_COUNT
             THEN send_notification_gt(failed, TRUE, Tail(outcomes), attempts + 1)
             ELSE [notifier |-> failed, result |-> FALSE, attempts |-> attempts + 1]

(* Notifier.send_notification on the object state n: the state after the
   call, the value returned and the number of attempts made, attempts being
   those made so far by the calls this one is a retry of.  _validate_config
   holds, Config.__init__ setting the three attributes it asks for. *)
RECURSIVE send_notification(_, _, _, _)
send_notification(n, retry, outcomes, attempts) ==
    IF n.retry_count >= ERROR_RETRY_COUNT
    THEN [notifier |-> n, result |-> FALSE, attempts |-> attempts]
    ELSE IF n.cooling
    THEN [notifier |-> n, result |-> FALSE, attempts |-> attempts]
    ELSE LET bark_success     == Head(outcomes)[1]
             telegram_success == Head(outcomes)[2]
             success == bark_success \/ telegram_success
             failed  == [n EXCEPT !.retry_count = @ + 1]
         IN  IF success
             THEN [notifier |-> [n EXCEPT !.retry_count = 0, !.cooling = TRUE],
                   result |-> TRUE, attempts |-> attempts + 1]
             ELSE IF retry /\ failed.retry_count < ERROR_RETRY_COUNT
             THEN send_notification(failed, TRUE, Tail(outcomes), attempts + 1)
             ELSE [notifier |-> failed, result |-> FALSE, attempts |-> attempts + 1]

----------------------------------------------------------------------------
(* The decision engine as driven by its callers *)

Held       == {"CASH", "QQQ", "SPY", "GLD"}     \* positions a caller assigns over cycles
RsiValues  == {65, 70, 85}
Trends     == {"rising", "falling", "stable"}
FearValues == {25, 30, 60, 70, 85}

ConfirmationInputs ==
    [qqq_rsi : RsiValues, spy_rsi : RsiValues, qqq_ma_trend : Trends,
     spy_ma_trend : Trends, fear_score : FearValues]

InitStrategy ==
    /\ current_position = None        \* Strategy.__init__
    /\ last_n_above_v = None
    /\ entry_prices = {}
    /\ cyc = NoCycle
    /\ prev = Summary(NoCycle)

InitStore ==
    /\ clock = 0
    /\ signal_state = init_db(NoRow, 0)
    /\ nf = NfIdle
    /\ sent = <<>>

\* Backtester.run_backtest before its loop: position = Position.CASH
BtStart == [i |-> 0, position |-> "CASH", ratios |-> <<>>, vs |-> <<>>,
            mas |-> <<>>, out |-> <<>>, trades |-> <<>>]

\* two Strategy objects in the same state s, nothing fed yet
PairStart(s) == [n |-> 0, a |-> s, b |-> s, ina |-> <<0, 0>>, inb |-> <<0, 0>>,
                 seqa |-> <<>>, seqb |-> <<>>]

\* no call of calculate_ratio made
NoCalc == [prices1 |-> <<>>, prices2 |-> <<>>, called |-> FALSE,
           error |-> "none", ratios |-> <<>>]

InitOther ==
    /\ bt = BtStart
    /\ pair = PairStart(None)
    /\ calc = NoCalc
    /\ notifier = NewNotifier

Init == InitStrategy /\ InitStore /\ InitOther

\* the cycles of a behaviour are capped
CanCycle == cyc.no < MaxCycles

\* a caller assigns the public attribute (e.g. writes a decision back)
SetCurrentPosition(p) ==
    /\ current_position # p
    /\ current_position' = p
    /\ UNCHANGED <<last_n_above_v, entry_prices, cyc, prev, store_vars, bt, pair, calc, notifier>>

\* a call of evaluate_position that stores its result in current_position
EvaluatePosition_write_back(n, v, ma) ==
    /\ CanCycle
    /\ LET r == evaluate_position(current_position, last_n_above_v, n, v, ma)
       IN  /\ last_n_above_v' = r.last_n_above_v
           /\ current_position' = r.result
           /\ cyc' = CycleRecord("evaluate_position", n, v, ma, NoInputs, r)
    /\ prev' = Summary(cyc)
    /\ UNCHANGED <<entry_prices, store_vars, bt, pair, calc, notifier>>

\* one call of strategy.evaluate_position (main.py line 77): the result is
\* returned to the caller, current_position is not assigned
EvaluatePosition(n, v, ma) ==
    /\ CanCycle
    /\ LET r == evaluate_position(current_position, last_n_above_v, n, v, ma)
       IN  /\ last_n_above_v' = r.last_n_above_v
           /\ cyc' = CycleRecord("evaluate_position", n, v, ma, NoInputs, r)
    /\ prev' = Summary(cyc)
    /\ UNCHANGED <<current_position, entry_prices, store_vars, bt, pair, calc, notifier>>

\* one call of strategy.evaluate_position_enhanced (monitoring.py line 194)
EvaluatePositionEnhanced(n, v, ma, ci) ==
    /\ CanCycle
    /\ LET r == evaluate_position_enhanced(current_position, last_n_above_v,
                                           entry_prices, n, v, ma, ci)
       IN  /\ last_n_above_v' = r.last_n_above_v
           /\ entry_prices' = r.entry_prices
           /\ cyc' = CycleRecord("evaluate_position_enhanced", n, v, ma, ci, r)
    /\ prev' = Summary(cyc)
    /\ UNCHANGED <<current_position, store_vars, bt, pair, calc, notifier>>

\* the process stops and main() runs again: DatabaseManager(...) runs init_db,
\* Strategy() is constructed anew
Restart ==
    /\ cyc.op # "restart"
    /\ current_position' = None
    /\ last_n_above_v' = None
    /\ entry_prices' = {}
    /\ cyc' = [NoCycle EXCEPT !.op = "restart", !.no = cyc.no,
                              !.pre = current_position, !.last_before = last_n_above_v]
    /\ prev' = Summary(cyc)
    /\ signal_state' = init_db(signal_state, clock)
    /\ nf' = NfIdle
    /\ UNCHANGED <<sent, clock, bt, pair, calc, notifier>>

Next ==
    \/ \E p \in Held : SetCurrentPosition(p)
    \/ /\ CanCycle
       /\ \E n \in Ratios, v \in Thresholds, ma \in BOOLEAN : EvaluatePosition(n, v, ma)
    \/ Restart

\* the engine over successive cycles of the basic evaluation
Spec == Init /\ [][Next]_vars

----------------------------------------------------------------------------
(* One decision cycle, basic or enhanced, from any state of the Strategy
   object: any held position, any remembered flag, any tracked entry prices *)

InitCycle ==
    /\ current_position \in Position \cup {None}
    /\ last_n_above_v \in {None, "True", "False"}
    /\ entry_prices \in SUBSET {"QQQ", "SPY"}
    /\ cyc = [NoCycle EXCEPT !.no = MaxCycles - 1]
    /\ prev = Summary(NoCycle)
    /\ InitStore /\ InitOther

NextCycle ==
    \/ /\ CanCycle
       /\ \E n \in Ratios, v \in Thresholds, ma \in BOOLEAN : EvaluatePosition(n, v, ma)
    \/ /\ CanCycle
       /\ \E n \in Ratios, v \in Thresholds, ma \in BOOLEAN, ci \in ConfirmationInputs :
             EvaluatePositionEnhanced(n, v, ma, ci)

SpecCycle == InitCycle /\ [][NextCycle]_vars

----------------------------------------------------------------------------
(* backtesting.py: the decision loop of Backtester.run_backtest on a freshly
   constructed Strategy *)

\* one iteration of the loop (lines 78-130, the decision and the trade record)
BacktestStep(current_ratio, current_v, spy_ma_condition) ==
    /\ bt.i < MaxSeries
    /\ LET previous_position == bt.position
           r == evaluate_position(current_position, last_n_above_v,
                                  current_ratio, current_v, spy_ma_condition)
           position == r.result
       IN  /\ last_n_above_v' = r.last_n_above_v
           /\ bt' = [i |-> bt.i + 1,
                     position |-> position,
                     ratios |-> Append(bt.ratios, current_ratio),
                     vs |-> Append(bt.vs, current_v),
                     mas |-> Append(bt.mas, spy_ma_condition),
                     out |-> Append(bt.out, position),
                     trades |-> IF position # previous_position
                                THEN Append(bt.trades, <<previous_position, position>>)
                                ELSE bt.trades]
    /\ UNCHANGED <<current_position, entry_prices, cyc, prev, store_vars, pair, calc, notifier>>

NextBacktest ==
    /\ bt.i < MaxSeries
    /\ \E n \in SeriesRatios, v \in Thresholds, ma \in BOOLEAN : BacktestStep(n, v, ma)

SpecBacktest == Init /\ [][NextBacktest]_vars

----------------------------------------------------------------------------
(* Two Strategy objects started in the same state and fed, cycle by cycle,
   pairs (N, V) that agree on N > V *)

Classification(x) ==
    IF x.crossover_up THEN "UP" ELSE IF x.crossover_down THEN "DOWN" ELSE "NONE"

FeedPair(na, va, nb, vb) ==
    /\ pair.n < MaxSeries
    /\ (na > va) = (nb > vb)
    /\ LET xa == detect_crossover(pair.a, na, va)
           xb == detect_crossover(pair.b, nb, vb)
       IN  pair' = [n |-> pair.n + 1,
                    a |-> xa.last_n_above_v, b |-> xb.last_n_above_v,
                    ina |-> <<na, va>>, inb |-> <<nb, vb>>,
                    seqa |-> Append(pair.seqa, Classification(xa)),
                    seqb |-> Append(pair.seqb, Classification(xb))]
    /\ UNCHANGED <<current_position, last_n_above_v, entry_prices, cyc, prev,
                   store_vars, bt, calc, notifier>>

InitPair ==
    /\ InitStrategy /\ InitStore
    /\ bt = BtStart
    /\ calc = NoCalc
    /\ notifier = NewNotifier
    /\ \E s \in {None, "True", "False"} : pair = PairStart(s)

NextPair ==
    /\ pair.n < MaxSeries
    /\ \E na \in SeriesRatios, va \in Thresholds, nb \in SeriesRatios, vb \in Thresholds :
          FeedPair(na, va, nb, vb)

SpecPair == InitPair /\ [][NextPair]_vars

----------------------------------------------------------------------------
(* notify_if_signal over the stored signal state, a call being the steps
   load (line 96), decide and alert (lines 97-140), persist (the
   update_signal_state call), with the process stopping at any step *)

\* line 96: the previous state is read
NotifyLoad(current_n, v) ==
    /\ nf.pc \in {"idle", "done", "aborted"}
    /\ nf' = [pc |-> "loaded", was |-> nf.pc, current_n |-> current_n, v |-> v,
              loaded |-> get_last_signal_state(signal_state), update |-> NoUpdate,
              writes |-> 0,
              prev_above |-> IF nf.pc = "idle" THEN None
                             ELSE PyBool(nf.current_n > nf.v)]
    /\ sent' = <<>>
    /\ UNCHANGED <<current_position, last_n_above_v, entry_prices, cyc, prev,
                   signal_state, clock, bt, pair, calc, notifier>>

\* the rule that applies is found and its alert handed to the notifier
NotifyDecide(crossover, price_le_ma) ==
    /\ nf.pc = "loaded"
    /\ LET d == notify_decision(nf.loaded[1], nf.loaded[3], nf.current_n, nf.v,
                                crossover, price_le_ma)
       IN  /\ sent' = d.alert
           /\ nf' = [nf EXCEPT !.pc = IF d.update.write THEN "persist" ELSE "done",
                               !.was = "loaded", !.update = d.update,
                               !.writes = Len(notify_updates(nf.loaded[1], nf.loaded[3],
                                                  nf.current_n, nf.v, crossover, price_le_ma))]
    /\ UNCHANGED <<current_position, last_n_above_v, entry_prices, cyc, prev,
                   signal_state, clock, bt, pair, calc, notifier>>

\* the update_signal_state call of the rule, after which the call returns
NotifyPersist ==
    /\ nf.pc = "persist"
    /\ signal_state' = update_signal_state(signal_state, nf.update.n_above_v,
                                           nf.update.long_signal, clock)
    /\ nf' = [nf EXCEPT !.pc = "done", !.was = "persist"]
    /\ UNCHANGED <<current_position, last_n_above_v, entry_prices, cyc, prev,
                   sent, clock, bt, pair, calc, notifier>>

\* the process stops inside the call and is started again: DatabaseManager(...)
\* runs init_db
Crash ==
    /\ nf.pc \in {"loaded", "persist"}
    /\ nf' = [nf EXCEPT !.pc = "aborted", !.was = nf.pc]
    /\ signal_state' = init_db(signal_state, clock)
    /\ UNCHANGED <<current_position, last_n_above_v, entry_prices, cyc, prev,
                   sent, clock, bt, pair, calc, notifier>>

\* time passes between calls
Tick ==
    /\ clock < MaxClock
    /\ nf.pc \in {"idle", "done", "aborted"}
    /\ clock' = clock + 1
    /\ UNCHANGED <<current_position, last_n_above_v, entry_prices, cyc, prev,
                   signal_state, nf, sent, bt, pair, calc, notifier>>

NextNotify ==
    \/ \E n \in Ratios, v \in Thresholds : NotifyLoad(n, v)
    \/ \E crossover \in BOOLEAN, price_le_ma \in BOOLEAN : NotifyDecide(crossover, price_le_ma)
    \/ NotifyPersist
    \/ Crash
    \/ Tick

SpecNotify == Init /\ [][NextNotify]_vars

----------------------------------------------------------------------------
(* monitoring.py: process_market_cycle.  A fault is the step of the cycle at
   which an exception is raised (or, for "no_v", at which check_current_ratio
   returns None):
     "database"   database.is_data_fresh / has_data, line 167
     "ratio"      ratio_calculator.check_current_ratio, line 173
     "no_v"       check_current_ratio returns None, lines 174-176
     "store_vix"  database.store_vix_data, line 209
     "prices"     market_data.get_current_prices, line 219 or 226
   An absent RSI or fear score is an exception of fetch_market_indicators
   (get_rsi, get_rsi_status or calculate_fear_score raises, line 191); a NaN
   passes through to the evaluation. *)

Faults == {"database", "ratio", "no_v", "store_vix", "prices"}

HasAbsent(ci) == AbsentValue \in {ci.qqq_rsi, ci.spy_rsi, ci.fear_score}

\* the decision fields of a cycle that did not reach the evaluation
NotEvaluated == [up |-> FALSE, down |-> FALSE, result |-> None, signals |-> <<>>,
                 exit_fired |-> FALSE, entry_evaluated |-> FALSE,
                 entry_fired |-> FALSE, raised |-> FALSE]

\* a cycle that runs the evaluation before it asks for the ratio
process_market_cycle_evaluate_first(position, last, prices, fault, n, v, ma, ci) ==
    LET r == evaluate_position_enhanced(position, last, prices, n, v, ma, ci)
    IN  IF fault \in Faults \/ r.raised
        THEN r @@ [ok |-> FALSE]
        ELSE [r EXCEPT !.entry_prices = IF r.result = position
                                        THEN @ \cup {"QQQ", "SPY"} ELSE @]
             @@ [ok |-> TRUE]

(* process_market_cycle (lines 165-241): the fields of the Strategy after the
   call, what the evaluation decided and sent, and the value returned (ok) *)
process_market_cycle(position, last, prices, fault, n, v, ma, ci) ==
    LET r == evaluate_position_enhanced(position, last, prices, n, v, ma, ci)
        untouched == NotEvaluated @@ [last_n_above_v |-> last, entry_prices |-> prices,
                                      ok |-> FALSE]
    IN  IF fault \in {"database", "ratio", "no_v"}
        THEN untouched
        ELSE IF HasAbsent(ci)
        THEN untouched
        ELSE IF r.raised
        THEN r @@ [ok |-> FALSE]
        ELSE IF fault \in {"store_vix", "prices"}
        THEN r @@ [ok |-> FALSE]
        ELSE [r EXCEPT !.entry_prices = IF r.result = position
                                        THEN @ \cup {"QQQ", "SPY"} ELSE @]
             @@ [ok |-> TRUE]

\* the confirmation inputs a monitoring cycle is given: present, absent or NaN
MonitorInputs ==
    [qqq_rsi : {65, AbsentValue, NaN}, spy_rsi : {65, AbsentValue, NaN},
     qqq_ma_trend : {"rising", "stable"}, spy_ma_trend : {"rising", "stable"},
     fear_score : {25, 60, AbsentValue, NaN}]

HasMissing(ci) == {ci.qqq_rsi, ci.spy_rsi, ci.fear_score} \cap {AbsentValue, NaN} # {}

\* the inputs of a cycle in which a step fails: all indicators present
PresentInputs == {ci \in MonitorInputs : ~HasMissing(ci)}

\* one call of process_market_cycle
ProcessMarketCycle(n, v, ma, ci, fault) ==
    /\ CanCycle
    /\ LET r == process_market_cycle(current_position, last_n_above_v, entry_prices,
                                     fault, n, v, ma, ci)
       IN  /\ last_n_above_v' = r.last_n_above_v
           /\ entry_prices' = r.entry_prices
           /\ cyc' = [CycleRecord("process_market_cycle", n, v, ma, ci, r)
                         EXCEPT !.ok = r.ok, !.fault = fault]
    /\ prev' = Summary(cyc)
    /\ UNCHANGED <<current_position, store_vars, bt, pair, calc, notifier>>

(* One monitoring cycle, or one direct call of the enhanced evaluation with
   inputs that may be absent or NaN, from any state of the Strategy object *)
NextMonitor ==
    \/ /\ CanCycle
       /\ \E n \in Ratios, v \in Thresholds, ma \in BOOLEAN, ci \in MonitorInputs :
             ProcessMarketCycle(n, v, ma, ci, "none")
    \/ /\ CanCycle
       /\ \E n \in Ratios, v \in Thresholds, ma \in BOOLEAN, ci \in PresentInputs,
             fault \in Faults :
             ProcessMarketCycle(n, v, ma, ci, fault)
    \/ /\ CanCycle
       /\ \E n \in Ratios, v \in Thresholds, ma \in BOOLEAN, ci \in MonitorInputs :
             EvaluatePositionEnhanced(n, v, ma, ci)

SpecMonitor == InitCycle /\ [][NextMonitor]_vars

----------------------------------------------------------------------------
(* market_data.py: MarketData.calculate_ratio *)

RECURSIVE GCD(_, _)
GCD(a, b) == IF b = 0 THEN a ELSE GCD(b, a % b)

\* p1 / p2 for p2 # 0, as the fraction in lowest terms <<numerator, denominator>>
Quotient(p1, p2) == LET g == GCD(p1, p2) IN <<p1 \div g, p2 \div g>>

Min(a, b) == IF a <= b THEN a ELSE b

LengthError == "ValueError: Price series must have the same length"
EmptyError  == "ValueError: Price series cannot be empty"
ZeroError   == "ValueError: Denominator prices cannot contain zero"

\* a ratio that pairs the two series up to the end of the shorter one
calculate_ratio_zip_shorter(prices1, prices2) ==
    IF prices1 = <<>> \/ prices2 = <<>>
    THEN [error |-> EmptyError, ratios |-> <<>>]
    ELSE IF \E i \in 1..Len(prices2) : prices2[i] = 0
    THEN [error |-> ZeroError, ratios |-> <<>>]
    ELSE [error |-> "none",
          ratios |-> [i \in 1..Min(Len(prices1), Len(prices2)) |->
                         Quotient(prices1[i], prices2[i])]]

calculate_ratio(prices1, prices2) ==
    IF Len(prices1) # Len(prices2)
    THEN [error |-> LengthError, ratios |-> <<>>]
    ELSE IF prices1 = <<>> \/ prices2 = <<>>
    THEN [error |-> EmptyError, ratios |-> <<>>]
    ELSE IF \E i \in 1..Len(prices2) : prices2[i] = 0
    THEN [error |-> ZeroError, ratios |-> <<>>]
    ELSE [error |-> "none",
          ratios |-> [i \in 1..Len(prices1) |-> Quotient(prices1[i], prices2[i])]]

\* the price series drawn: every list of at most MaxLen prices in 0..MaxPrice
PriceSeries == UNION {[1..k -> 0..MaxPrice] : k \in 0..MaxLen}

InitRatio ==
    /\ InitStrategy /\ InitStore
    /\ bt = BtStart
    /\ pair = PairStart(None)
    /\ notifier = NewNotifier
    /\ \E a \in PriceSeries, b \in PriceSeries :
          calc = [NoCalc EXCEPT !.prices1 = a, !.prices2 = b]

\* the call: it raises or returns the list
CalculateRatio ==
    /\ ~calc.called
    /\ LET r == calculate_ratio(calc.prices1, calc.prices2)
       IN  calc' = [calc EXCEPT !.called = TRUE, !.error = r.error, !.ratios = r.ratios]
    /\ UNCHANGED <<current_position, last_n_above_v, entry_prices, cyc, prev,
                   store_vars, bt, pair, notifier>>

NextRatio == CalculateRatio

SpecRatio == InitRatio /\ [][NextRatio]_vars

----------------------------------------------------------------------------
(* Properties of one decision cycle and of successive cycles *)

IsCycle(c) == c.op \in {"evaluate_position", "evaluate_position_enhanced"}

AllowedMoves == {<<"CASH", "QQQ">>, <<"CASH", "SPY">>, <<"QQQ", "CASH">>, <<"SPY", "CASH">>}

(* C1: a decision cycle, basic or enhanced, from any held position (an unset
   position counts as CASH) returns either the held position or a position
   reached along CASH->QQQ, CASH->SPY, QQQ->CASH, SPY->CASH; holding QQQ it
   never returns SPY and holding SPY it never returns QQQ. *)
C1_OnlyAllowedTransitions ==
    IsCycle(cyc) =>
        /\ \/ cyc.result = OrCash(cyc.pre)
           \/ <<OrCash(cyc.pre), cyc.result>> \in AllowedMoves
        /\ cyc.pre = "QQQ" => cyc.result # "SPY"
        /\ cyc.pre = "SPY" => cyc.result # "QQQ"

\* an enhanced cycle that entered QQQ from CASH
C1_Witness ==
    /\ cyc.op = "evaluate_position_enhanced"
    /\ cyc.pre = "CASH"
    /\ cyc.result = "QQQ"

(* C2: in an evaluate_position cycle in which an exit signal is sent, the
   result is CASH, the entry check is not run and no entry signal is sent,
   also when N <= V holds with the secondary trend true right after a
   downward crossover while QQQ is held. *)
C2_ExitEndsCycle ==
    (cyc.op = "evaluate_position" /\ Titles(cyc.signals) \cap ExitTitles # {}) =>
        /\ cyc.result = "CASH"
        /\ ~cyc.entry_evaluated
        /\ Titles(cyc.signals) \cap EntryTitles = {}

\* QQQ held, downward crossover, and the SPY entry condition holds as well
C2_Witness ==
    /\ cyc.op = "evaluate_position"
    /\ cyc.pre = "QQQ" /\ cyc.down
    /\ cyc.n <= cyc.v /\ cyc.ma
    /\ SellQQQ \in Titles(cyc.signals)
    /\ cyc.result = "CASH"

(* C3: a backtest of a new Strategy over N = 0.9, 0.95, 1.05, 1.1 with V = 1.0
   and the secondary trend condition false throughout returns QQQ in cycle 3
   and QQQ again in cycle 4. *)
C3_EntryAtThirdCycle ==
    ( /\ bt.i = 4
      /\ bt.ratios = <<18, 19, 21, 22>>
      /\ bt.vs = <<20, 20, 20, 20>>
      /\ bt.mas = <<FALSE, FALSE, FALSE, FALSE>> ) =>
        /\ bt.out[3] = "QQQ"
        /\ bt.out[4] = "QQQ"

(* C4: a cycle that starts with the remembered flag unset reports neither an
   upward nor a downward crossover, whatever N and V are, and leaves the
   remembered flag equal to (N > V). *)
C4_FirstDetectionIsNone ==
    (cyc.op = "evaluate_position" /\ cyc.last_before = None) =>
        /\ ~cyc.up /\ ~cyc.down
        /\ last_n_above_v = PyBool(cyc.n > cyc.v)

\* a first detection with N above V
C4_Witness ==
    /\ cyc.op = "evaluate_position"
    /\ cyc.last_before = None
    /\ cyc.n > cyc.v
    /\ last_n_above_v = "True"

(* C5: with the remembered flag set, the crossover is UP exactly when the
   flag was false and N > V, DOWN exactly when the flag was true and not
   N > V, and never both. *)
C5_CrossoverClassification ==
    (cyc.op = "evaluate_position" /\ cyc.last_before # None) =>
        /\ cyc.up   <=> (cyc.last_before = "False" /\ cyc.n > cyc.v)
        /\ cyc.down <=> (cyc.last_before = "True" /\ ~(cyc.n > cyc.v))
        /\ ~(cyc.up /\ cyc.down)

\* a downward crossover with N equal to V
C5_Witness ==
    /\ cyc.op = "evaluate_position"
    /\ cyc.last_before = "True"
    /\ cyc.n = cyc.v
    /\ cyc.down /\ ~cyc.up

(* C6: two detectors started in the same state and fed pairs (N, V) that
   agree, cycle by cycle, on N > V produce the same sequence of crossover
   classifications, whatever the magnitudes. *)
C6_MagnitudeIndependent == pair.seqa = pair.seqb

\* an upward crossover classified from different magnitudes of N and V
C6_Witness ==
    /\ pair.n >= 2
    /\ pair.ina[1] # pair.inb[1] /\ pair.ina[2] # pair.inb[2]
    /\ pair.seqa[pair.n] = "UP"
    /\ pair.seqa[pair.n - 1] = "DOWN"

\* two successive evaluate_position cycles with SPY held at the start of both
\* and N at or below V in both
HoldingSpyBelow ==
    /\ cyc.op = "evaluate_position" /\ prev.op = "evaluate_position"
    /\ cyc.pre = "SPY" /\ prev.pre = "SPY"
    /\ cyc.n <= cyc.v /\ prev.n <= prev.v

(* C7: holding SPY with N at or below V, in the cycle in which the secondary
   trend condition is first false (true in the cycle before) the result is
   CASH with the SPY exit signal, and the cycle before returned SPY without
   any exit signal. *)
C7_ExitAtTrendFlip ==
    (HoldingSpyBelow /\ prev.ma /\ ~cyc.ma) =>
        /\ prev.result = "SPY"
        /\ Titles(prev.signals) \cap ExitTitles = {}
        /\ cyc.result = "CASH"
        /\ SellSPY \in Titles(cyc.signals)

\* the trend flipped from true to false while SPY was held and N stayed below V
C7_Witness ==
    /\ HoldingSpyBelow /\ prev.ma /\ ~cyc.ma
    /\ cyc.n < cyc.v /\ prev.n < prev.v
    /\ cyc.result = "CASH"

\* two successive evaluate_position cycles with the same inputs and the same
\* held position
SameCycleTwice ==
    /\ cyc.op = "evaluate_position" /\ prev.op = "evaluate_position"
    /\ cyc.pre = prev.pre
    /\ cyc.n = prev.n /\ cyc.v = prev.v /\ cyc.ma = prev.ma

(* C8: a cycle run twice in a row with identical inputs and no state change
   in between returns the same position both times, and the second run sends
   no entry and no exit signal. *)
C8_Idempotent ==
    SameCycleTwice =>
        /\ cyc.result = prev.result
        /\ SignalType(cyc) = "NONE"

(* C9: after a restart that follows at least one cycle, the engine has the
   remembered flag it had before the restart and the position it held. *)
C9_RestartResumes ==
    (cyc.op = "restart" /\ cyc.no >= 1) =>
        /\ last_n_above_v = cyc.last_before
        /\ OrCash(current_position) = OrCash(cyc.pre)

(* C10: when a notify_if_signal call is aborted after its decision is made
   and before update_signal_state runs, what get_last_signal_state returns
   after the restart is what it returned at the start of the aborted call:
   all four fields are unchanged. *)
C10_AbortKeepsStoredState ==
    (nf.pc = "aborted" /\ nf.was = "persist") =>
        get_last_signal_state(signal_state) = nf.loaded

\* a call aborted with the QQQ entry decided and alerted, at a later time than
\* the stored state was written
C10_Witness ==
    /\ nf.pc = "aborted" /\ nf.was = "persist"
    /\ nf.update.long_signal = "QQQ"
    /\ sent = <<BuyQQQAlert>>
    /\ signal_state.last_long_signal = None
    /\ signal_state.last_check_time # {clock}

----------------------------------------------------------------------------
(* The stored signal state over the steps of notify_if_signal *)

(* C11: in every state of a notify_if_signal call, of a call that was
   aborted at any step, and after the call, the stored last_n_above_v differs
   from what the call read only if the stored signal differs from what the
   call read as well and the signal time was stamped by the same write. *)
C11_SaveIsAtomic ==
    nf.pc # "idle" =>
        LET row == get_last_signal_state(signal_state)
        IN  row[1] # nf.loaded[1] =>
                /\ row[3] # nf.loaded[3]
                /\ row[4] # {}
                /\ row[4] = row[2]

\* the QQQ entry saved at a later time than the state it replaced was written:
\* the flag, the signal and the signal time are all those of this call
C11_Witness ==
    /\ nf.pc = "done" /\ nf.was = "persist"
    /\ nf.loaded[1] = FALSE /\ nf.loaded[3] = None /\ nf.loaded[4] = {}
    /\ clock > 0
    /\ signal_state.last_n_above_v = TRUE
    /\ signal_state.last_long_signal = "QQQ"
    /\ signal_state.last_signal_time = {clock}

(* C12: every notify_if_signal call that returns has performed one
   update_signal_state, and the stored last_n_above_v is then this call's
   (N > V). *)
C12_ExactlyOneUpdate ==
    nf.pc = "done" =>
        /\ nf.was = "persist"
        /\ signal_state.last_n_above_v = (nf.current_n > nf.v)

----------------------------------------------------------------------------
(* The enhanced evaluation against the basic one *)

IsEnhanced(c) == c.op = "evaluate_position_enhanced" /\ ~c.raised

\* what evaluate_position does from the state and with the N, V and secondary
\* trend condition of the cycle c
Basic(c) == evaluate_position(c.pre, c.last_before, c.n, c.v, c.ma)

(* C13: an enhanced cycle that starts holding QQQ with qqq_rsi > 80, the QQQ
   trend 'falling' or fear_score > 80 returns CASH with the QQQ exit signal,
   and one that starts holding SPY with spy_rsi > 80, the SPY trend 'falling'
   or fear_score > 80 returns CASH with the SPY exit signal, whatever the
   crossover is. *)
C13_OverboughtForcesExit ==
    IsEnhanced(cyc) =>
        /\ ( /\ cyc.pre = "QQQ"
             /\ \/ cyc.ci.qqq_rsi > 80
                \/ cyc.ci.qqq_ma_trend = "falling"
                \/ cyc.ci.fear_score > 80 )
           => (cyc.result = "CASH" /\ cyc.signals = <<SellQQQ>>)
        /\ ( /\ cyc.pre = "SPY"
             /\ \/ cyc.ci.spy_rsi > 80
                \/ cyc.ci.spy_ma_trend = "falling"
                \/ cyc.ci.fear_score > 80 )
           => (cyc.result = "CASH" /\ cyc.signals = <<SellSPY>>)

\* QQQ held, no downward crossover, RSI 85 alone forces the exit
C13_Witness ==
    /\ IsEnhanced(cyc)
    /\ cyc.pre = "QQQ" /\ ~cyc.down
    /\ cyc.ci.qqq_rsi = 85
    /\ cyc.ci.qqq_ma_trend = "rising" /\ cyc.ci.fear_score = 60
    /\ cyc.result = "CASH"

(* C14: whenever evaluate_position, run from the same state with the same N,
   V and secondary trend condition, takes an exit (QQQ held and a downward
   crossover, SPY held and an upward crossover or the trend condition
   false), the enhanced cycle returns CASH, whatever RSI, trend and
   fear_score are. *)
C14_BasicExitsHonored ==
    (IsEnhanced(cyc) /\ Basic(cyc).exit_fired) => cyc.result = "CASH"

(* C15: an enhanced cycle that enters QQQ or SPY started from CASH, and
   evaluate_position from the same state with the same N, V and secondary
   trend condition enters the same instrument; the entry has the
   instrument's RSI below 70, its trend 'rising' and the fear score inside
   the band of the instrument (below 70 for QQQ, above 30 for SPY). *)
C15_ConfirmationOnlyRestricts ==
    (IsEnhanced(cyc) /\ cyc.entry_fired) =>
        /\ cyc.pre = "CASH"
        /\ cyc.result \in {"QQQ", "SPY"}
        /\ Basic(cyc).entry_fired
        /\ Basic(cyc).result = cyc.result
        /\ cyc.result = "QQQ" =>
              /\ cyc.ci.qqq_rsi < 70
              /\ cyc.ci.qqq_ma_trend = "rising"
              /\ cyc.ci.fear_score < 70
        /\ cyc.result = "SPY" =>
              /\ cyc.ci.spy_rsi < 70
              /\ cyc.ci.spy_ma_trend = "rising"
              /\ cyc.ci.fear_score > 30

\* a confirmed SPY entry, which the basic rules take as well
C15_Witness ==
    /\ IsEnhanced(cyc) /\ cyc.entry_fired
    /\ cyc.pre = "CASH" /\ cyc.result = "SPY"
    /\ Basic(cyc).result = "SPY"
    /\ cyc.ci.spy_rsi = 65 /\ cyc.ci.fear_score = 60

----------------------------------------------------------------------------
(* calculate_ratio *)

\* the arguments for which calculate_ratio is to fail
BadSeries(prices1, prices2) ==
    \/ Len(prices1) # Len(prices2)
    \/ prices1 = <<>> \/ prices2 = <<>>
    \/ \E i \in 1..Len(prices2) : prices2[i] = 0

(* C19: calculate_ratio raises an error and returns nothing exactly when the
   two series differ in length, one of them is empty or a denominator price
   is 0; otherwise it returns a list as long as the series whose i-th
   element is prices1[i] / prices2[i]. *)
C19_CalculateRatio ==
    calc.called =>
        /\ BadSeries(calc.prices1, calc.prices2) <=> calc.error # "none"
        /\ calc.error # "none" => calc.ratios = <<>>
        /\ calc.error = "none" =>
              /\ Len(calc.ratios) = Len(calc.prices1)
              /\ \A i \in 1..Len(calc.ratios) :
                    /\ calc.ratios[i][2] # 0
                    /\ calc.ratios[i][1] * calc.prices2[i]
                         = calc.ratios[i][2] * calc.prices1[i]

\* two series of two prices with different quotients
C19_Witness ==
    /\ calc.called /\ calc.error = "none"
    /\ calc.prices1 = <<2, 1>> /\ calc.prices2 = <<1, 2>>
    /\ calc.ratios = << <<2, 1>>, <<1, 2>> >>

----------------------------------------------------------------------------
(* Errors in a monitoring cycle *)

IsMonitorCycle(c) == c.op = "process_market_cycle"

\* the remembered flag agrees with the stored one (a flag not yet set has
\* nothing to disagree with)
Agrees(flag, row) == flag = None \/ flag = PyBool(row.last_n_above_v)

(* C16: a cycle of the enhanced path whose confirmation inputs are absent or
   NaN, and in which no other step fails, does not end in an error; it enters
   an instrument only if that instrument's RSI and the fear score are
   present, and it takes every exit the basic rules take (QQQ held and a
   downward crossover, SPY held and an upward crossover or the trend
   condition false). *)
C16_FailsClosed ==
    ( /\ cyc.op \in {"process_market_cycle", "evaluate_position_enhanced"}
      /\ cyc.fault = "none"
      /\ HasMissing(cyc.ci) ) =>
        /\ cyc.ok /\ ~cyc.raised
        /\ (cyc.entry_fired /\ cyc.result = "QQQ") =>
              {cyc.ci.qqq_rsi, cyc.ci.fear_score} \cap {AbsentValue, NaN} = {}
        /\ (cyc.entry_fired /\ cyc.result = "SPY") =>
              {cyc.ci.spy_rsi, cyc.ci.fear_score} \cap {AbsentValue, NaN} = {}
        /\ Basic(cyc).exit_fired =>
              (cyc.result = "CASH" /\ Titles(cyc.signals) \cap ExitTitles # {})

(* C17: a process_market_cycle call that returns False has left the
   remembered flag as it was before the call, and the stored signal state as
   it was. *)
C17_AllOrNothing ==
    (IsMonitorCycle(cyc) /\ ~cyc.ok) =>
        /\ last_n_above_v = cyc.last_before
        /\ signal_state = init_db(NoRow, 0)

(* C18: a process_market_cycle call in which check_current_ratio raises (its
   prices, its ratio calculation) or finds no V value returns False, sends no
   signal, and leaves the remembered flag, the held position and the stored
   signal state as they were. *)
C18_BadRatioAborts ==
    (IsMonitorCycle(cyc) /\ cyc.fault \in {"ratio", "no_v"}) =>
        /\ ~cyc.ok
        /\ cyc.signals = <<>> /\ cyc.result = None
        /\ last_n_above_v = cyc.last_before
        /\ current_position = cyc.pre
        /\ signal_state = init_db(NoRow, 0)

\* the ratio fails in a cycle that would have been a downward crossover with
\* QQQ held
C18_Witness ==
    /\ IsMonitorCycle(cyc) /\ cyc.fault = "ratio"
    /\ cyc.pre = "QQQ" /\ cyc.last_before = "True"
    /\ cyc.n <= cyc.v
    /\ ~cyc.ok
    /\ last_n_above_v = "True" /\ current_position = "QQQ"

(* C20: a process_market_cycle call in which a DatabaseManager operation
   fails returns False, and after a call that started with the remembered
   flag in agreement with the stored one, the two still agree. *)
C20_MemoryMatchesStore ==
    (IsMonitorCycle(cyc) /\ Agrees(cyc.last_before, signal_state)) =>
        /\ cyc.fault \in {"database", "store_vix"} => ~cyc.ok
        /\ Agrees(last_n_above_v, signal_state)

----------------------------------------------------------------------------
(* The position held by the engine *)

(* C21: at every point after the Strategy is constructed the current
   position is a Position, never null (a fresh Strategy holds CASH), and
   every decision cycle returns a Position. *)
C21_PositionNeverNull ==
    /\ current_position \in Position
    /\ (cyc.op = "evaluate_position" => cyc.result \in Position)

----------------------------------------------------------------------------
(* database.py: init_db over a database file that is new or was written by
   earlier runs *)

\* the rows a signal_state table can hold up to time now: the default row,
\* or what an UPDATE of all four columns left
StoredRows(now) ==
    {DefaultRow(t) : t \in 0..now} \cup
    {[last_n_above_v |-> b, last_check_time |-> {t},
      last_long_signal |-> s, last_signal_time |-> {t}] :
        b \in BOOLEAN, s \in {None, "QQQ", "SPY"}, t \in 0..now}

InitDatabase ==
    /\ InitStrategy /\ InitOther
    /\ clock \in 0..MaxClock
    /\ signal_state \in {NoRow} \cup StoredRows(clock)
    /\ nf = NfIdle
    /\ sent = <<>>

\* DatabaseManager(...) is constructed: init_db runs; the row found before
\* the call is kept in nf.loaded
InitDb ==
    /\ signal_state' = init_db(signal_state, clock)
    /\ nf' = [NfIdle EXCEPT !.was = "init_db",
                            !.loaded = get_last_signal_state(signal_state)]
    /\ UNCHANGED <<current_position, last_n_above_v, entry_prices, cyc, prev,
                   sent, clock, bt, pair, calc, notifier>>

NextDatabase ==
    \/ InitDb
    \/ Tick

SpecDatabase == InitDatabase /\ [][NextDatabase]_vars

(* C22: after init_db the signal_state table holds its one row (id = 1); a
   row created by the call has last_n_above_v false and no signal, and a row
   that existed before the call has all four columns as they were. *)
C22_InitDbCreatesOnce ==
    nf.was = "init_db" =>
        /\ signal_state # NoRow
        /\ IF nf.loaded = get_last_signal_state(NoRow)
           THEN /\ signal_state.last_n_above_v = FALSE
                /\ signal_state.last_long_signal = None
                /\ signal_state.last_signal_time = {}
           ELSE get_last_signal_state(signal_state) = nf.loaded

\* init_db run at a later time on a row that records an open QQQ signal
C22_Witness ==
    /\ nf.was = "init_db"
    /\ nf.loaded[3] = "QQQ" /\ nf.loaded[1] = TRUE
    /\ signal_state.last_long_signal = "QQQ"
    /\ signal_state.last_check_time # {clock}

----------------------------------------------------------------------------
(* One cycle of the basic evaluation from any state of the Strategy object *)

NextBasic ==
    /\ CanCycle
    /\ \E n \in Ratios, v \in Thresholds, ma \in BOOLEAN : EvaluatePosition(n, v, ma)

SpecBasic == InitCycle /\ [][NextBasic]_vars

(* C23: a cycle of evaluate_position that starts holding QQQ returns CASH if
   the crossover is DOWN and QQQ otherwise; one that starts holding SPY
   returns CASH if the crossover is UP or the secondary trend condition is
   false, and SPY otherwise. *)
C23_ExitRules ==
    cyc.op = "evaluate_position" =>
        /\ cyc.pre = "QQQ" => cyc.result = (IF cyc.down THEN "CASH" ELSE "QQQ")
        /\ cyc.pre = "SPY" =>
               cyc.result = (IF cyc.up \/ ~cyc.ma THEN "CASH" ELSE "SPY")

\* QQQ held through an upward crossover
C23_Witness ==
    /\ cyc.op = "evaluate_position"
    /\ cyc.pre = "QQQ" /\ cyc.up
    /\ cyc.result = "QQQ"
    /\ cyc.signals = <<CrossUpTitle>>

(* C24: a cycle of evaluate_position that starts with current_position CASH
   returns QQQ if the crossover is UP, otherwise SPY if N <= V and the
   secondary trend condition is true, otherwise CASH; a cycle that starts
   with anything else sends no entry notification and returns no instrument
   it did not hold. *)
C24_EntryRules ==
    cyc.op = "evaluate_position" =>
        IF cyc.pre = "CASH"
        THEN cyc.result = (IF cyc.up THEN "QQQ"
                           ELSE IF cyc.n <= cyc.v /\ cyc.ma THEN "SPY"
                           ELSE "CASH")
        ELSE /\ ~cyc.entry_fired
             /\ Titles(cyc.signals) \cap EntryTitles = {}
             /\ cyc.result \in {cyc.pre, "CASH"}

\* from CASH, N above V without a crossover: no entry
C24_Witness ==
    /\ cyc.op = "evaluate_position"
    /\ cyc.pre = "CASH"
    /\ cyc.n > cyc.v /\ ~cyc.up
    /\ cyc.result = "CASH"
    /\ cyc.signals = <<>>

----------------------------------------------------------------------------
(* The remembered flag over the operations of the Strategy *)

(* C25: after a cycle, whatever _detect_crossover classified, the
   remembered last_n_above_v is (N > V) of that cycle, and it stays so while
   other operations run; before the first cycle of a Strategy object it is
   as the constructor left it. *)
C25_FlagIsLastComparison ==
    /\ cyc.op = "evaluate_position" => last_n_above_v = PyBool(cyc.n > cyc.v)
    /\ cyc.op \in {"none", "restart"} => last_n_above_v = None

\* the cycle before had N above V, this one has not and classified DOWN, and
\* the caller has since assigned the position
C25_Witness ==
    /\ cyc.op = "evaluate_position"
    /\ cyc.last_before = "True" /\ cyc.down
    /\ last_n_above_v = "False"
    /\ current_position # cyc.pre

----------------------------------------------------------------------------
(* The cycle in which nothing fires *)

\* the instruments no rule of the basic evaluation mentions
Alternatives == Position \ {"CASH", "QQQ", "SPY"}

(* C26: a cycle of evaluate_position in which neither the exit check nor
   the entry check returns a position returns the Position held at its
   start and sends no entry or exit notification; with an alternative
   instrument (SH, PSQ, AGG, LQD, TLT, GLD) held every cycle is such a
   cycle. *)
C26_NoOpKeepsPosition ==
    (cyc.op = "evaluate_position" /\ cyc.pre \in Position) =>
        /\ (~cyc.exit_fired /\ ~cyc.entry_fired) =>
               /\ cyc.result = cyc.pre
               /\ Titles(cyc.signals) \cap (ExitTitles \cup EntryTitles) = {}
        /\ cyc.pre \in Alternatives => (~cyc.exit_fired /\ ~cyc.entry_fired)

\* TLT held through an upward crossover with the secondary trend condition
\* false: the crossover is reported, nothing else
C26_Witness ==
    /\ cyc.op = "evaluate_position"
    /\ cyc.pre = "TLT" /\ cyc.up /\ ~cyc.ma
    /\ cyc.result = "TLT"
    /\ cyc.signals = <<CrossUpTitle>>
    /\ current_position = "TLT"

----------------------------------------------------------------------------
(* The stored signal over notify_if_signal calls *)

SignalMoves == {<<None, "QQQ">>, <<None, "SPY">>, <<"QQQ", None>>, <<"SPY", None>>}

(* C27: in every state of a notify_if_signal call and after it, the stored
   last signal is either the one the call read or one step from it along
   none->QQQ, none->SPY, QQQ->none, SPY->none, and the call makes at most
   one update_signal_state call. *)
C27_SignalMovesOneStep ==
    nf.pc # "idle" =>
        /\ nf.writes <= 1
        /\ nf.writes = (IF nf.update.write THEN 1 ELSE 0)
        /\ \/ signal_state.last_long_signal = nf.loaded[3]
           \/ <<nf.loaded[3], signal_state.last_long_signal>> \in SignalMoves

\* an open QQQ signal closed by a call, with the trend crossover reported true
C27_Witness ==
    /\ nf.pc = "done" /\ nf.was = "persist"
    /\ nf.loaded[3] = "QQQ"
    /\ signal_state.last_long_signal = None
    /\ sent = <<SellQQQAlert>>
    /\ nf.writes = 1

(* C28: when a notify_if_signal call reads no open signal and N was at or
   below V in the call before and is above V in this one, the QQQ buy alert
   is sent and QQQ is the stored signal when the call returns; and the QQQ
   buy alert is sent only by a call whose N is above V after a call whose N
   was at or below V. *)
C28_BuyOnCrossingOnly ==
    nf.pc \in {"persist", "done"} =>
        LET crossed == nf.prev_above = "False" /\ nf.current_n > nf.v
        IN  /\ (nf.loaded[3] = None /\ crossed) =>
                   /\ sent = <<BuyQQQAlert>>
                   /\ nf.pc = "done" => signal_state.last_long_signal = "QQQ"
            /\ sent = <<BuyQQQAlert>> => crossed

----------------------------------------------------------------------------
(* A freshly constructed Strategy whose callers never assign
   current_position: successive cycles of either evaluation *)

NextFresh ==
    \/ /\ CanCycle
       /\ \E n \in Ratios, v \in Thresholds, ma \in BOOLEAN : EvaluatePosition(n, v, ma)
    \/ /\ CanCycle
       /\ \E n \in Ratios, v \in Thresholds, ma \in BOOLEAN, ci \in PresentInputs :
             EvaluatePositionEnhanced(n, v, ma, ci)

SpecFresh == Init /\ [][NextFresh]_vars

(* C29: evaluate_position and evaluate_position_enhanced do not assign
   current_position: on a fresh Strategy whose callers do not write the
   result back, every cycle starts with current_position unset, leaves it
   unset, fires no exit and no entry, and returns CASH. *)
C29_NoWriteBack ==
    /\ current_position = None
    /\ IsCycle(cyc) =>
           /\ cyc.pre = None
           /\ cyc.result = "CASH"
           /\ ~cyc.exit_fired /\ ~cyc.entry_fired
    /\ prev.op # "none" => prev.result = "CASH"

\* a later cycle of the enhanced evaluation, after a basic one, that sees an
\* upward crossover and still returns CASH
C29_Witness ==
    /\ cyc.op = "evaluate_position_enhanced" /\ cyc.no >= 2
    /\ prev.op = "evaluate_position" /\ prev.result = "CASH"
    /\ cyc.up
    /\ cyc.result = "CASH"
    /\ current_position = None

----------------------------------------------------------------------------
(* notification.py: send_notification calls on one Notifier object *)

\* one call of send_notification, retries included
SendNotification(retry, outcomes) ==
    /\ LET r == send_notification(notifier, retry, outcomes, 0)
       IN  notifier' = [r.notifier EXCEPT !.called = TRUE, !.retry = retry,
                                          !.outcomes = outcomes,
                                          !.before = notifier.retry_count,
                                          !.attempts = r.attempts,
                                          !.result = r.result]
    /\ UNCHANGED <<current_position, last_n_above_v, entry_prices, cyc, prev,
                   store_vars, bt, pair, calc>>

\* NOTIFICATION_COOLDOWN seconds have passed since the last delivery
CooldownPasses ==
    /\ notifier.cooling
    /\ notifier' = [notifier EXCEPT !.cooling = FALSE]
    /\ UNCHANGED <<current_position, last_n_above_v, entry_prices, cyc, prev,
                   store_vars, bt, pair, calc>>

NextNotifier ==
    \/ \E retry \in BOOLEAN, outcomes \in Outcomes : SendNotification(retry, outcomes)
    \/ CooldownPasses

SpecNotifier == Init /\ [][NextNotifier]_vars

\* every channel fails in every attempt
AllFail(outcomes) == \A i \in DOMAIN outcomes : outcomes[i] = <<FALSE, FALSE>>

(* C30: a send_notification call returns after at most ERROR_RETRY_COUNT
   attempts, counting the retries the object had already used; if every
   channel fails in every attempt it returns False; _retry_count never
   exceeds ERROR_RETRY_COUNT and goes back to 0 only in a call that
   delivered; a call made with _retry_count at ERROR_RETRY_COUNT returns
   False without an attempt and leaves the counter there. *)
C30_RetriesBounded ==
    /\ notifier.retry_count \in 0..ERROR_RETRY_COUNT
    /\ notifier.called =>
           /\ notifier.before + notifier.attempts <= ERROR_RETRY_COUNT
           /\ AllFail(notifier.outcomes) => ~notifier.result
           /\ (notifier.before > 0 /\ notifier.retry_count = 0) =>
                  (notifier.result /\ notifier.attempts >= 1)
           /\ notifier.before = ERROR_RETRY_COUNT =>
                  /\ ~notifier.result
                  /\ notifier.attempts = 0
                  /\ notifier.retry_count = ERROR_RETRY_COUNT

\* the counter at ERROR_RETRY_COUNT, no cooldown running, and a call whose
\* first attempt would have been delivered: refused without an attempt
C30_Witness ==
    /\ notifier.called
    /\ notifier.before = ERROR_RETRY_COUNT
    /\ ~notifier.cooling
    /\ notifier.outcomes[1] = <<TRUE, TRUE>>
    /\ notifier.attempts = 0 /\ ~notifier.result

============================================================================
